---- MODULE Spec2Model ----
(***************************************************************************)
(* Model of src/hello.py: the Streamlit image-detection page.              *)
(*                                                                         *)
(* Python values are tagged records [k, v]; texts (Python str) are         *)
(* sequences of lexical tokens, so that json.loads is a real parser and    *)
(* not the identity.  Confidence numbers and the threshold are kept in     *)
(* hundredths (0.9 is 90, 0.05 is 5).                                      *)
(***************************************************************************)
EXTENDS Integers, Sequences, FiniteSets, TLC

VARIABLES API_KEY, detection_mode, confidence_threshold,
          pc, caller, image, sent, encoded, response, body_read,
          results, returned, errors, display, uncaught

vars == <<API_KEY, detection_mode, confidence_threshold,
          pc, caller, image, sent, encoded, response, body_read,
          results, returned, errors, display, uncaught>>

(* ---------------- Python values ---------------- *)
None == [k |-> "null", v |-> 0]
Num(n) == [k |-> "num", v |-> n]
Str(text) == [k |-> "str", v |-> text]
List(s) == [k |-> "list", v |-> s]
Dict(f) == [k |-> "dict", v |-> f]

(* ---------------- exceptions ---------------- *)
NoExc == [type |-> "none", desc |-> "", code |-> 0]
Exc(t, d) == [type |-> t, desc |-> d, code |-> 0]
Ok(val) == [exc |-> NoExc, val |-> val]
Raise(t, d) == [exc |-> Exc(t, d), val |-> None]
Raised(r) == r.exc.type # "none"

(* ---------------- texts: sequences of tokens ---------------- *)
P(c) == [t |-> "p", v |-> c]
S(s) == [t |-> "str", v |-> s]
N(n) == [t |-> "num", v |-> n]
Word(w) == [t |-> "word", v |-> w]

IsP(toks, i, c) == i <= Len(toks) /\ toks[i].t = "p" /\ toks[i].v = c

\* The parser reads objects, arrays, strings and numbers; a bare word is
\* text that is not JSON.
RECURSIVE ParseValue(_, _)
RECURSIVE ParseElements(_, _, _)
RECURSIVE ParseMembers(_, _, _)

ParseFail == [ok |-> FALSE, val |-> None, next |-> 0]
ParseOk(val, n) == [ok |-> TRUE, val |-> val, next |-> n]

ParseValue(toks, i) ==
    IF i > Len(toks) THEN ParseFail
    ELSE LET tk == toks[i] IN
         CASE tk.t = "num" -> ParseOk(Num(tk.v), i + 1)
           [] tk.t = "str" -> ParseOk(Str(<<Word(tk.v)>>), i + 1)
           [] tk.t = "p" /\ tk.v = "[" ->
                IF IsP(toks, i + 1, "]") THEN ParseOk(List(<<>>), i + 2)
                ELSE ParseElements(toks, i + 1, <<>>)
           [] tk.t = "p" /\ tk.v = "{" ->
                IF IsP(toks, i + 1, "}") THEN ParseOk(Dict(<<>>), i + 2)
                ELSE ParseMembers(toks, i + 1, <<>>)
           [] OTHER -> ParseFail

ParseElements(toks, i, acc) ==
    LET r == ParseValue(toks, i) IN
    IF ~r.ok THEN ParseFail
    ELSE IF IsP(toks, r.next, ",")
         THEN ParseElements(toks, r.next + 1, Append(acc, r.val))
    ELSE IF IsP(toks, r.next, "]")
         THEN ParseOk(List(Append(acc, r.val)), r.next + 1)
    ELSE ParseFail

ParseMembers(toks, i, acc) ==
    IF i + 1 <= Len(toks) /\ toks[i].t = "str" /\ IsP(toks, i + 1, ":")
    THEN LET r == ParseValue(toks, i + 2) IN
         IF ~r.ok THEN ParseFail
         ELSE LET acc2 == (toks[i].v :> r.val) @@ acc IN
              IF IsP(toks, r.next, ",")
              THEN ParseMembers(toks, r.next + 1, acc2)
              ELSE IF IsP(toks, r.next, "}")
                   THEN ParseOk(Dict(acc2), r.next + 1)
              ELSE ParseFail
    ELSE ParseFail

\* json.loads(results): the whole text must be one JSON value
json_loads(text) ==
    LET r == ParseValue(text, 1) IN
    IF r.ok /\ r.next = Len(text) + 1 THEN Ok(r.val)
    ELSE Raise("JSONDecodeError", "Expecting value")

(* ---------------- Python container operations ---------------- *)
\* key in c
PyIn(key, c) ==
    CASE c.k = "dict" -> Ok(key \in DOMAIN c.v)
      [] c.k = "list" -> Ok(\E i \in 1..Len(c.v) :
                              c.v[i].k = "str" /\ c.v[i].v = <<Word(key)>>)
      [] c.k = "str" -> Ok(\E i \in 1..Len(c.v) :
                              c.v[i].t \in {"word", "str"} /\ c.v[i].v = key)
      [] OTHER -> Raise("TypeError", "argument is not iterable")

\* len(c)
PyLen(c) ==
    CASE c.k = "dict" -> Ok(Cardinality(DOMAIN c.v))
      [] c.k \in {"list", "str"} -> Ok(Len(c.v))
      [] OTHER -> Raise("TypeError", "object has no len()")

\* c[0]
PyIndex0(c) ==
    CASE c.k = "list" -> IF Len(c.v) > 0 THEN Ok(c.v[1])
                         ELSE Raise("IndexError", "list index out of range")
      [] c.k = "str" -> IF Len(c.v) > 0 THEN Ok(Str(<<c.v[1]>>))
                        ELSE Raise("IndexError", "string index out of range")
      [] c.k = "dict" -> Raise("KeyError", "0")
      [] OTHER -> Raise("TypeError", "object is not subscriptable")

\* c[key] for a string key
PyGetItem(c, key) ==
    CASE c.k = "dict" -> IF key \in DOMAIN c.v THEN Ok(c.v[key])
                         ELSE Raise("KeyError", key)
      [] c.k \in {"list", "str"} ->
                         Raise("TypeError", "indices must be integers")
      [] OTHER -> Raise("TypeError", "object is not subscriptable")

\* truth value of a Python object (if x: / if not x:)
Truthy(x) ==
    CASE x.k = "null" -> FALSE
      [] x.k = "num" -> x.v # 0
      [] x.k \in {"str", "list"} -> Len(x.v) > 0
      [] x.k = "dict" -> DOMAIN x.v # {}

(* ---------------- configuration ---------------- *)
API_URL == "https://api.openai.com/v1/chat/completions"
MODEL == "gpt-4-vision-preview"
max_tokens == 800

DetectionModes == {"Object Detection", "Scene Analysis", "Text Recognition"}

\* slider: min 0.0, max 1.0, step 0.05, default 0.5 (hundredths)
SliderMin == 0
SliderMax == 100
SliderStep == 5
SliderDefault == 50
ThresholdValues ==
    {t \in SliderMin..SliderMax : (t - SliderMin) % SliderStep = 0}

\* the credential: empty, or some bearer token
Credentials == {"", "sk-test"}

(* ---------------- encode_image ---------------- *)
\* an image is a PIL image or a numpy array, with a colour mode and a size
Images == <<[type |-> "PIL", mode |-> "RGB", w |-> 2, h |-> 1],
            [type |-> "ndarray", mode |-> "RGB", w |-> 1, h |-> 2],
            [type |-> "PIL", mode |-> "RGBA", w |-> 2, h |-> 2]>>

\* st.camera_input delivers a JPEG, which Image.open reads as an RGB image
FromCamera(img) == img.type = "PIL" /\ img.mode = "RGB"

\* the uploader takes jpg, jpeg and png; a png may carry an alpha channel
FromUpload(img) == img.type = "PIL"

\* JPEG can hold these modes; image.save raises OSError for any other
JpegModes == {"RGB", "L", "CMYK"}

encode_image(img) ==
    LET pil == [img EXCEPT !.type = "PIL"] IN
    IF pil.mode \in JpegModes
    THEN Ok([k |-> "base64", v |-> [format |-> "JPEG", mode |-> pil.mode,
                                    w |-> pil.w, h |-> pil.h]])
    ELSE Raise("OSError", "cannot write mode as JPEG")

(* ---------------- analyze_image: up to the POST ---------------- *)
Prompt(mode) ==
    IF mode = "Object Detection"
    THEN "Detect all objects in this image. For each object, provide: 1) the name of the object, 2) a confidence score from 0 to 1, and 3) a brief description. Format as a JSON with a list of objects."
    ELSE IF mode = "Scene Analysis"
    THEN "Analyze this scene. Describe: 1) the overall setting, 2) key elements in the scene, 3) the mood or atmosphere, and 4) any notable activities happening. Format as a JSON."
    ELSE "Extract all visible text from this image. Provide: 1) the text content, 2) the location in the image (top, middle, bottom, left, right, etc.), and 3) confidence level for each text element. Format as a JSON."

Request(key, mode, b64) ==
    [url |-> API_URL,
     content_type |-> "application/json",
     authorization |-> <<"Bearer ", key>>,
     model |-> MODEL,
     role |-> "user",
     text |-> Prompt(mode),
     image_url |-> <<"data:image/jpeg;base64,", b64>>,
     detail |-> "high",
     max_tokens |-> max_tokens]

KeyErrorFeature ==
    [msg |-> "Please provide an OpenAI API key to use this feature!",
     exc |-> NoExc]
KeyErrorSidebar ==
    [msg |-> "Please provide an OpenAI API key in the sidebar first.",
     exc |-> NoExc]

\* analyze_image without its credential guard
analyze_image_enter_noguard(key, img, mode) ==
    LET b == encode_image(img) IN
    IF Raised(b)
    THEN [errors |-> <<>>, encoded |-> <<img>>, sent |-> <<>>,
          uncaught |-> b.exc, returned |-> FALSE]
    ELSE [errors |-> <<>>, encoded |-> <<img>>,
          sent |-> <<Request(key, mode, b.val)>>,
          uncaught |-> NoExc, returned |-> FALSE]

\* analyze_image with the encoding moved inside the try block
analyze_image_enter_guarded_encode(key, img, mode) ==
    IF key = ""
    THEN [errors |-> <<KeyErrorFeature>>, encoded |-> <<>>, sent |-> <<>>,
          uncaught |-> NoExc, returned |-> TRUE]
    ELSE LET b == encode_image(img) IN
         IF Raised(b)
         THEN [errors |-> <<[msg |-> "An unexpected error occurred: ",
                             exc |-> b.exc]>>,
               encoded |-> <<img>>, sent |-> <<>>,
               uncaught |-> NoExc, returned |-> TRUE]
         ELSE [errors |-> <<>>, encoded |-> <<img>>,
               sent |-> <<Request(key, mode, b.val)>>,
               uncaught |-> NoExc, returned |-> FALSE]

\* lines 62-104: the credential guard, the encoding, the request document.
\* sent is the request handed to requests.post, if the call gets that far.
analyze_image_enter(key, img, mode) ==
    IF key = ""
    THEN [errors |-> <<KeyErrorFeature>>, encoded |-> <<>>, sent |-> <<>>,
          uncaught |-> NoExc, returned |-> TRUE]
    ELSE LET b == encode_image(img) IN
         IF Raised(b)
         THEN [errors |-> <<>>, encoded |-> <<img>>, sent |-> <<>>,
               uncaught |-> b.exc, returned |-> FALSE]
         ELSE [errors |-> <<>>, encoded |-> <<img>>,
               sent |-> <<Request(key, mode, b.val)>>,
               uncaught |-> NoExc, returned |-> FALSE]

(* ---------------- analyze_image: the guarded section ---------------- *)
\* the status is never inspected
raise_for_status_never(status) == Ok(None)

\* response.raise_for_status(): HTTPError for 4xx and 5xx
raise_for_status(status) ==
    IF status >= 400 /\ status < 600
    THEN [exc |-> [type |-> "HTTPError",
                   desc |-> IF status < 500 THEN "Client Error"
                            ELSE "Server Error",
                   code |-> status],
          val |-> None]
    ELSE Ok(None)

\* the first choice's message is returned instead of its content
extract_content_message(result) ==
    LET has == PyIn("choices", result) IN
    IF Raised(has) THEN [exc |-> has.exc, val |-> None, unexpected |-> FALSE]
    ELSE IF ~has.val THEN [exc |-> NoExc, val |-> None, unexpected |-> TRUE]
    ELSE
    LET choices == PyGetItem(result, "choices") IN
    IF Raised(choices)
    THEN [exc |-> choices.exc, val |-> None, unexpected |-> FALSE]
    ELSE
    LET n == PyLen(choices.val) IN
    IF Raised(n) THEN [exc |-> n.exc, val |-> None, unexpected |-> FALSE]
    ELSE IF ~(n.val > 0)
    THEN [exc |-> NoExc, val |-> None, unexpected |-> TRUE]
    ELSE
    LET first == PyIndex0(choices.val) IN
    IF Raised(first)
    THEN [exc |-> first.exc, val |-> None, unexpected |-> FALSE]
    ELSE
    LET message == PyGetItem(first.val, "message") IN
    [exc |-> message.exc, val |-> message.val, unexpected |-> FALSE]

\* the length of the choice list is not tested
extract_content_nolen(result) ==
    LET has == PyIn("choices", result) IN
    IF Raised(has) THEN [exc |-> has.exc, val |-> None, unexpected |-> FALSE]
    ELSE IF ~has.val THEN [exc |-> NoExc, val |-> None, unexpected |-> TRUE]
    ELSE
    LET choices == PyGetItem(result, "choices") IN
    IF Raised(choices)
    THEN [exc |-> choices.exc, val |-> None, unexpected |-> FALSE]
    ELSE
    LET first == PyIndex0(choices.val) IN
    IF Raised(first)
    THEN [exc |-> first.exc, val |-> None, unexpected |-> FALSE]
    ELSE
    LET message == PyGetItem(first.val, "message") IN
    IF Raised(message)
    THEN [exc |-> message.exc, val |-> None, unexpected |-> FALSE]
    ELSE
    LET content == PyGetItem(message.val, "content") IN
    [exc |-> content.exc, val |-> content.val, unexpected |-> FALSE]

\* lines 112-116: the result of the if/else on the decoded body.
\* unexpected is TRUE on the else branch (st.error + return None).
extract_content(result) ==
    LET has == PyIn("choices", result) IN
    IF Raised(has) THEN [exc |-> has.exc, val |-> None, unexpected |-> FALSE]
    ELSE IF ~has.val THEN [exc |-> NoExc, val |-> None, unexpected |-> TRUE]
    ELSE
    LET choices == PyGetItem(result, "choices") IN
    IF Raised(choices)
    THEN [exc |-> choices.exc, val |-> None, unexpected |-> FALSE]
    ELSE
    LET n == PyLen(choices.val) IN
    IF Raised(n) THEN [exc |-> n.exc, val |-> None, unexpected |-> FALSE]
    ELSE IF ~(n.val > 0)
    THEN [exc |-> NoExc, val |-> None, unexpected |-> TRUE]
    ELSE
    LET first == PyIndex0(choices.val) IN
    IF Raised(first)
    THEN [exc |-> first.exc, val |-> None, unexpected |-> FALSE]
    ELSE
    LET message == PyGetItem(first.val, "message") IN
    IF Raised(message)
    THEN [exc |-> message.exc, val |-> None, unexpected |-> FALSE]
    ELSE
    LET content == PyGetItem(message.val, "content") IN
    [exc |-> content.exc, val |-> content.val, unexpected |-> FALSE]

\* the exception classes derived from requests.exceptions.RequestException
RequestExceptions ==
    {"ConnectionError", "Timeout", "HTTPError", "InvalidJSONError"}

\* only the RequestException clause: anything else escapes
except_clauses_narrow(e) ==
    IF e.type \in RequestExceptions
    THEN [ret |-> None,
          errors |-> <<[msg |-> "API request failed: ", exc |-> e]>>,
          uncaught |-> NoExc]
    ELSE [ret |-> None, errors |-> <<>>, uncaught |-> e]

\* lines 117-122: the two except clauses
except_clauses(e) ==
    IF e.type \in RequestExceptions
    THEN [ret |-> None,
          errors |-> <<[msg |-> "API request failed: ", exc |-> e]>>,
          uncaught |-> NoExc]
    ELSE [ret |-> None,
          errors |-> <<[msg |-> "An unexpected error occurred: ",
                        exc |-> e]>>,
          uncaught |-> NoExc]

UnexpectedFormat ==
    [msg |-> "Unexpected API response format.", exc |-> NoExc]

\* lines 106-122, from the return of requests.post on.
\* resp.post is what requests.post did (returned, or raised), resp.status the
\* HTTP status, resp.json what response.json() yields (a value, or raises).
Failed(e, read) ==
    [ret |-> except_clauses(e).ret, errors |-> except_clauses(e).errors,
     uncaught |-> except_clauses(e).uncaught, body_read |-> read]

analyze_image_response(resp) ==
    IF Raised(resp.post) THEN Failed(resp.post.exc, FALSE)
    ELSE LET st == raise_for_status(resp.status) IN
    IF Raised(st) THEN Failed(st.exc, FALSE)
    ELSE IF Raised(resp.json) THEN Failed(resp.json.exc, TRUE)
    ELSE LET x == extract_content(resp.json.val) IN
    IF Raised(x) THEN Failed(x.exc, TRUE)
    ELSE IF x.unexpected
    THEN [ret |-> None, errors |-> <<UnexpectedFormat>>,
          uncaught |-> NoExc, body_read |-> TRUE]
    ELSE [ret |-> x.val, errors |-> <<>>,
          uncaught |-> NoExc, body_read |-> TRUE]

(* ---------------- result presentation ---------------- *)
Subheader(s) == [kind |-> "subheader", val |-> Str(<<Word(s)>>)]
Json(r) == [kind |-> "json", val |-> r]
WriteObject(obj) == [kind |-> "object", val |-> obj]
WriteText(x) == [kind |-> "write", val |-> x]
Separator == [kind |-> "write", val |-> Str(<<Word("---")>>)]
Notice == [kind |-> "notice",
           val |-> Str(<<Word("Could not parse the structured results.")>>)]

\* lines 151-153: the camera tab
present_camera(r) ==
    IF Truthy(r) THEN <<Subheader("Detection Results"), Json(r)>>
    ELSE <<>>

\* lines 183-187: the loop over parsed_results["objects"], from entry i on.
\* out is what was written before the loop ended or raised.
RECURSIVE show_objects(_, _, _, _)
show_objects(objs, i, threshold, out) ==
    IF i > Len(objs) THEN [exc |-> NoExc, out |-> out]
    ELSE LET conf == PyGetItem(objs[i], "confidence") IN
    IF Raised(conf) THEN [exc |-> conf.exc, out |-> out]
    ELSE IF conf.val.k # "num"
    THEN [exc |-> Exc("TypeError", ">= not supported"), out |-> out]
    ELSE IF ~(conf.val.v >= threshold)
    THEN show_objects(objs, i + 1, threshold, out)
    ELSE LET name == PyGetItem(objs[i], "name") IN
    IF Raised(name) THEN [exc |-> name.exc, out |-> out]
    ELSE
    LET desc == IF "description" \in DOMAIN objs[i].v
                THEN objs[i].v["description"] ELSE Str(<<>>)
    IN show_objects(objs, i + 1, threshold,
            out \o <<WriteObject(objs[i]), WriteText(desc), Separator>>)

\* the except clause swallows the failure without a notice
present_structured_silent(r, threshold) ==
    LET parsed == IF r.k = "str" THEN json_loads(r.v)
                  ELSE Raise("TypeError", "the JSON object must be str")
    IN
    IF Raised(parsed) THEN <<>>
    ELSE IF ~(parsed.val.k = "dict" /\ "objects" \in DOMAIN parsed.val.v)
    THEN <<>>
    ELSE
    LET objects == parsed.val.v["objects"] IN
    IF objects.k # "list"
    THEN <<Subheader("Detected Objects")>>
    ELSE LET shown == show_objects(objects.v, 1, threshold, <<>>) IN
         <<Subheader("Detected Objects")>> \o shown.out

\* lines 178-189: the try block and its bare except
present_structured(r, threshold) ==
    LET parsed == IF r.k = "str" THEN json_loads(r.v)
                  ELSE Raise("TypeError", "the JSON object must be str")
    IN
    IF Raised(parsed) THEN <<Notice>>
    ELSE IF ~(parsed.val.k = "dict" /\ "objects" \in DOMAIN parsed.val.v)
    THEN <<>>
    ELSE
    LET objects == parsed.val.v["objects"] IN
    IF objects.k # "list"
    THEN IF objects.k \in {"dict", "str"} /\ ~Truthy(objects)
         THEN <<Subheader("Detected Objects")>>
         ELSE <<Subheader("Detected Objects"), Notice>>
    ELSE LET shown == show_objects(objects.v, 1, threshold, <<>>) IN
         <<Subheader("Detected Objects")>> \o shown.out
            \o (IF shown.exc.type # "none" THEN <<Notice>> ELSE <<>>)

\* lines 173-189: the upload tab
present_upload(r, threshold) ==
    IF Truthy(r)
    THEN <<Subheader("Detection Results"), Json(r)>>
            \o present_structured(r, threshold)
    ELSE <<>>

(* ---------------- sample texts returned by the service ---------------- *)
Entry(name, conf) ==
    <<P("{"), S("name"), P(":"), S(name), P(","),
      S("confidence"), P(":"), N(conf), P("}")>>
EntryDesc(name, conf, desc) ==
    <<P("{"), S("name"), P(":"), S(name), P(","),
      S("confidence"), P(":"), N(conf), P(","),
      S("description"), P(":"), S(desc), P("}")>>
Objects(entries) ==
    <<P("{"), S("objects"), P(":"), P("[")>> \o entries \o <<P("]"), P("}")>>

Texts ==
    << \* the empty string
       <<>>,
       \* {"objects":[{"name":"cat","confidence":0.9},{"name":"dog","confidence":0.2}]}
       Objects(Entry("cat", 90) \o <<P(",")>> \o Entry("dog", 20)),
       \* three entries, one exactly at the default threshold, one described
       Objects(Entry("dog", 20) \o <<P(",")>>
               \o EntryDesc("bird", 50, "a small bird") \o <<P(",")>>
               \o Entry("cat", 90)),
       \* {"objects":[]}
       Objects(<<>>),
       \* second entry without a confidence
       Objects(Entry("cat", 90) \o <<P(",")>>
               \o <<P("{"), S("name"), P(":"), S("dog"), P("}")>>
               \o <<P(",")>> \o Entry("bird", 70)),
       \* prose, not JSON
       <<Word("I"), Word("see"), Word("a"), Word("cat")>>,
       \* JSON cut off by the token budget
       <<P("{"), S("objects"), P(":"), P("["), P("{"), S("name"), P(":"),
         S("cat")>>,
       \* a scene description: {"setting":"park"}
       <<P("{"), S("setting"), P(":"), S("park"), P("}")>>,
       \* a bare list: [{"name":"cat","confidence":0.9}]
       <<P("[")>> \o Entry("cat", 90) \o <<P("]")>>
    >>

(* ---------------- sample responses ---------------- *)
Choice(content) == Dict("message" :> Dict("content" :> content))
Body(choices) == Dict("choices" :> List(choices))

PostRaises(t, d) ==
    [post |-> Raise(t, d), status |-> 0, json |-> Ok(None)]
Http(status, json) ==
    [post |-> Ok(None), status |-> status, json |-> json]

FailureResponses ==
    << PostRaises("ConnectionError", "Connection refused"),
       PostRaises("Timeout", "Read timed out"),
       Http(401, Ok(Dict("error" :> Str(<<Word("invalid key")>>)))),
       Http(500, Ok(Body(<<Choice(Str(Texts[2]))>>))),
       \* a body that is not JSON: requests raises its own JSONDecodeError
       \* (an InvalidJSONError), older releases a plain ValueError
       Http(200, Raise("InvalidJSONError", "Expecting value")),
       Http(200, Raise("ValueError", "Expecting value")),
       Http(200, Ok(Dict("error" :> Str(<<Word("overloaded")>>)))),
       Http(200, Ok(Body(<<>>))),
       Http(200, Ok(List(<<>>))),
       Http(200, Ok(Num(7))),
       Http(200, Ok(Dict("choices" :> None))),
       Http(200, Ok(Body(<<Dict("index" :> Num(0))>>))),
       Http(200, Ok(Body(<<Dict("message" :> Dict("role" :> Str(<<Word("assistant")>>)))>>))),
       Http(200, Ok(Body(<<Dict("message" :> None)>>))),
       Http(200, Ok(Body(<<Choice(None)>>))),
       Http(200, Ok(Body(<<Choice(Str(Texts[6])), Choice(Str(Texts[2]))>>)))
    >>

Responses ==
    FailureResponses
      \o [i \in 1..Len(Texts) |-> Http(200, Ok(Body(<<Choice(Str(Texts[i]))>>)))]

\* no response has been received in this run
NoResponse == Http(0, Ok(None))

(* ---------------- the state machine ---------------- *)
Init ==
    /\ API_KEY \in Credentials
    /\ detection_mode = "Object Detection"
    /\ confidence_threshold = SliderDefault
    /\ pc = "ready"
    /\ caller = "none"
    /\ image = Images[1]
    /\ sent = <<>>
    /\ encoded = <<>>
    /\ response = NoResponse
    /\ body_read = FALSE
    /\ results = None
    /\ returned = FALSE
    /\ errors = <<>>
    /\ display = <<>>
    /\ uncaught = NoExc

\* a script run caused by a sidebar widget: no button is pressed, so the
\* page is drawn without results
Configure(key, mode, threshold) ==
    /\ pc = "ready"
    /\ API_KEY' = key
    /\ detection_mode' = mode
    /\ confidence_threshold' = threshold
    /\ caller' = "none"
    /\ sent' = <<>>
    /\ encoded' = <<>>
    /\ body_read' = FALSE
    /\ results' = None
    /\ returned' = FALSE
    /\ errors' = <<>>
    /\ display' = <<>>
    /\ uncaught' = NoExc
    /\ response' = NoResponse
    /\ UNCHANGED <<pc, image>>

\* analyze_image(img, mode) is entered by who; the run either ends here
\* (no credential, or the encoder raised) or blocks in requests.post
Call(who, img, mode) ==
    LET e == analyze_image_enter(API_KEY, img, mode) IN
    /\ caller' = who
    /\ image' = img
    /\ errors' = e.errors
    /\ encoded' = e.encoded
    /\ sent' = e.sent
    /\ uncaught' = e.uncaught
    /\ returned' = e.returned
    /\ results' = None
    /\ body_read' = FALSE
    /\ display' = <<>>
    /\ pc' = IF e.sent # <<>> THEN "inflight" ELSE "ready"
    /\ response' = NoResponse
    /\ UNCHANGED <<API_KEY, detection_mode, confidence_threshold>>

\* the button of a tab was pressed while the credential is empty
NoKey(who) ==
    /\ caller' = who
    /\ errors' = <<KeyErrorSidebar>>
    /\ encoded' = <<>>
    /\ sent' = <<>>
    /\ uncaught' = NoExc
    /\ returned' = FALSE
    /\ results' = None
    /\ body_read' = FALSE
    /\ display' = <<>>
    /\ response' = NoResponse
    /\ UNCHANGED <<API_KEY, detection_mode, confidence_threshold, pc, image>>

\* lines 144-149: "Analyze Camera Image"
AnalyzeCameraImage(img) ==
    /\ pc = "ready"
    /\ FromCamera(img)
    /\ IF API_KEY = "" THEN NoKey("camera")
       ELSE Call("camera", img, detection_mode)

\* lines 167-171: "Analyze Uploaded Image"
AnalyzeUploadedImage(img) ==
    /\ pc = "ready"
    /\ FromUpload(img)
    /\ IF API_KEY = "" THEN NoKey("upload")
       ELSE Call("upload", img, detection_mode)

\* analyze_image called as a function, outside the two tabs
AnalyzeDirect(img, mode) ==
    /\ pc = "ready"
    /\ Call("direct", img, mode)

\* a failed request is posted once more
Respond_retry(resp) ==
    LET out == analyze_image_response(resp) IN
    /\ pc = "inflight"
    /\ response' = resp
    /\ results' = out.ret
    /\ uncaught' = out.uncaught
    /\ body_read' = out.body_read
    /\ errors' = errors \o out.errors
    /\ IF out.errors # <<>> /\ Len(sent) < 2
       THEN /\ sent' = Append(sent, sent[1])
            /\ returned' = FALSE
            /\ display' = <<>>
            /\ pc' = "inflight"
       ELSE /\ sent' = sent
            /\ returned' = (out.uncaught = NoExc)
            /\ display' = CASE out.uncaught # NoExc -> <<>>
                            [] caller = "camera" -> present_camera(out.ret)
                            [] caller = "upload" ->
                                 present_upload(out.ret, confidence_threshold)
                            [] OTHER -> <<>>
            /\ pc' = "ready"
    /\ UNCHANGED <<API_KEY, detection_mode, confidence_threshold, caller,
                   image, encoded>>

\* requests.post returns or raises; analyze_image runs to its return and the
\* calling tab presents the result
Respond(resp) ==
    LET out == analyze_image_response(resp) IN
    /\ pc = "inflight"
    /\ response' = resp
    /\ results' = out.ret
    /\ returned' = (out.uncaught = NoExc)
    /\ uncaught' = out.uncaught
    /\ body_read' = out.body_read
    /\ errors' = errors \o out.errors
    /\ display' = CASE out.uncaught # NoExc -> <<>>
                    [] caller = "camera" -> present_camera(out.ret)
                    [] caller = "upload" ->
                         present_upload(out.ret, confidence_threshold)
                    [] OTHER -> <<>>
    /\ pc' = "ready"
    /\ UNCHANGED <<API_KEY, detection_mode, confidence_threshold, caller,
                   image, sent, encoded>>

Next ==
    \/ \E key \in Credentials, mode \in DetectionModes,
          threshold \in ThresholdValues : Configure(key, mode, threshold)
    \/ \E i \in 1..Len(Images) : AnalyzeCameraImage(Images[i])
    \/ \E i \in 1..Len(Images) : AnalyzeUploadedImage(Images[i])
    \/ \E i \in 1..Len(Images), mode \in DetectionModes :
          AnalyzeDirect(Images[i], mode)
    \/ \E i \in 1..Len(Responses) : Respond(Responses[i])

Spec == Init /\ [][Next]_vars

(* ---------------- properties ---------------- *)
\* a call of analyze_image has run to its end in this script run, and a
\* response was received on the way
Responded == pc = "ready" /\ sent # <<>> /\ response # NoResponse

\* the response was received without a transport failure or an error status
Successful == /\ Responded
              /\ ~Raised(response.post)
              /\ response.status < 400
              /\ ~Raised(response.json)

BodyJson == response.json.val

\* the body is a mapping with a list under "choices"
HasChoiceList == /\ Successful
                 /\ BodyJson.k = "dict"
                 /\ "choices" \in DOMAIN BodyJson.v
                 /\ BodyJson.v["choices"].k = "list"

\* the body carries choices[0].message.content
HasContent ==
    /\ HasChoiceList
    /\ Len(BodyJson.v["choices"].v) > 0
    /\ LET first == BodyJson.v["choices"].v[1] IN
       /\ first.k = "dict"
       /\ "message" \in DOMAIN first.v
       /\ first.v["message"].k = "dict"
       /\ "content" \in DOMAIN first.v["message"].v

Content == BodyJson.v["choices"].v[1].v["message"].v["content"]

\* C1: a request is sent only with a non-empty credential; an analysis
\* started with an empty credential encodes nothing, sends nothing, reports
\* exactly the missing-credential error and yields no result, from
\* analyze_image itself and from both tabs.
C1_NoRequestWithoutCredential ==
    /\ \A i \in 1..Len(sent) : sent[i].authorization # <<"Bearer ", "">>
    /\ (caller # "none" /\ API_KEY = "") =>
          /\ sent = <<>>
          /\ encoded = <<>>
          /\ pc = "ready"
          /\ results = None
          /\ display = <<>>
          /\ errors = IF caller = "direct" THEN <<KeyErrorFeature>>
                      ELSE <<KeyErrorSidebar>>

C1_Witness ==
    caller = "direct" /\ API_KEY = "" /\ returned
        /\ errors = <<KeyErrorFeature>>

\* C2: with a successful response whose body carries a string X at
\* choices[0].message.content, analyze_image returns X itself and reports
\* no error.
C2_ReturnsContentVerbatim ==
    (HasContent /\ Content.k = "str") =>
        /\ returned
        /\ results = Content
        /\ errors = <<>>

C2_Witness ==
    HasContent /\ Content.k = "str" /\ Len(Content.v) > 0
        /\ results = Content

\* C3: with a successful response whose body has no choices (the key is
\* absent or the list is empty), analyze_image reports the "unexpected
\* format" error and returns None.
C3_NoChoicesIsUnexpectedFormat ==
    (/\ Successful
     /\ BodyJson.k = "dict"
     /\ \/ "choices" \notin DOMAIN BodyJson.v
        \/ /\ BodyJson.v["choices"].k = "list"
           /\ Len(BodyJson.v["choices"].v) = 0)
    => /\ returned
       /\ results = None
       /\ errors = <<UnexpectedFormat>>

C3_Witness ==
    HasChoiceList /\ Len(BodyJson.v["choices"].v) = 0
        /\ errors = <<UnexpectedFormat>>

\* C4: when requests.post fails or the response has an error status,
\* analyze_image reports one failure that carries the underlying error,
\* returns None and does not read the response body.
C4_TransportFailureReported ==
    (Responded /\ (Raised(response.post) \/ response.status >= 400)) =>
        /\ returned
        /\ results = None
        /\ ~body_read
        /\ Len(errors) = 1
        /\ errors[1].msg = "API request failed: "
        /\ IF Raised(response.post)
           THEN errors[1].exc = response.post.exc
           ELSE /\ errors[1].exc.type = "HTTPError"
                /\ errors[1].exc.code = response.status

C4_Witness ==
    Responded /\ response = FailureResponses[4] /\ response.status = 500
        /\ results = None /\ Len(errors) = 1 /\ ~body_read

Displayed ==
    LET objs == SelectSeq(display, LAMBDA d : d.kind = "object")
    IN [j \in 1..Len(objs) |-> objs[j].val]

WellFormed(obj) ==
    /\ obj.k = "dict"
    /\ "name" \in DOMAIN obj.v
    /\ "confidence" \in DOMAIN obj.v
    /\ obj.v["confidence"].k = "num"

\* the displayed result decodes to a mapping with a list of entries
DecodesToObjects(r) ==
    /\ r.k = "str"
    /\ ~Raised(json_loads(r.v))
    /\ LET p == json_loads(r.v).val IN
       /\ p.k = "dict"
       /\ "objects" \in DOMAIN p.v
       /\ p.v["objects"].k = "list"
       /\ \A i \in 1..Len(p.v["objects"].v) : WellFormed(p.v["objects"].v[i])

AtOrAbove(r) ==
    SelectSeq(json_loads(r.v).val.v["objects"].v,
              LAMBDA o : o.v["confidence"].v >= confidence_threshold)

\* C6: whenever a result is displayed that decodes to a mapping with a list
\* of entries under "objects", exactly the entries with a confidence at or
\* above the threshold are displayed, in list order, whichever tab obtained
\* the result.
C6_EntriesAtOrAboveThreshold ==
    \A i \in 1..Len(display) :
        (display[i].kind = "json" /\ DecodesToObjects(display[i].val))
            => Displayed = AtOrAbove(display[i].val)

\* C7: when the displayed result does not decode as JSON, the notice is
\* shown after the raw result, no entry is displayed and nothing escapes.
C7_DecodeFailureIsNotice ==
    (/\ caller = "upload"
     /\ Responded
     /\ Truthy(results)
     /\ results.k = "str"
     /\ Raised(json_loads(results.v)))
    => /\ display = <<Subheader("Detection Results"), Json(results), Notice>>
       /\ uncaught = NoExc
       /\ returned

C7_Witness ==
    caller = "upload" /\ Responded /\ results = Str(Texts[6])
        /\ Len(display) = 3 /\ display[3] = Notice

\* the exception raised while the body was decoded or searched, if any
BodyException ==
    IF Raised(response.json) THEN response.json.exc
    ELSE extract_content(response.json.val).exc

\* C8: an exception raised while the body is decoded or searched is
\* reported with its description, the result is None, and no exception
\* leaves the guarded section.
C8_OtherExceptionsReported ==
    /\ Responded => uncaught = NoExc
    /\ (/\ Responded
        /\ ~Raised(response.post)
        /\ response.status < 400
        /\ BodyException # NoExc)
       => /\ returned
          /\ results = None
          /\ Len(errors) = 1
          /\ errors[1].exc = BodyException

C8_Witness ==
    HasChoiceList /\ Len(BodyJson.v["choices"].v) > 0 /\ ~HasContent
        /\ Len(errors) = 1 /\ errors[1].exc.type = "KeyError"
        /\ errors[1].msg = "An unexpected error occurred: "

\* C9: when the encoder fails, its exception leaves analyze_image: nothing
\* is sent, nothing is returned and no failure message is reported.
C9_EncoderFailureIsFatal ==
    (caller # "none" /\ API_KEY # "" /\ image.mode \notin JpegModes) =>
        /\ uncaught.type = "OSError"
        /\ pc = "ready"
        /\ sent = <<>>
        /\ ~returned
        /\ results = None
        /\ errors = <<>>
        /\ display = <<>>

C9_Witness ==
    caller = "upload" /\ image.mode = "RGBA" /\ uncaught.type = "OSError"
        /\ encoded = <<image>>

\* C10: a completed call of analyze_image either returned a string and
\* reported no error, or returned None and reported exactly one error;
\* results are displayed only for a non-empty string, and an empty content
\* yields neither a display nor an error.
C10_StringOrOneError ==
    (pc = "ready" /\ returned) =>
        /\ \/ (results.k = "str" /\ errors = <<>>)
           \/ (results = None /\ Len(errors) = 1)
        /\ display # <<>> => (results.k = "str" /\ Len(results.v) > 0)
        /\ (HasContent /\ Content = Str(<<>>)) =>
               (display = <<>> /\ errors = <<>>)

====
